---- MODULE Spec2Model ----
(***************************************************************************)
(* Model of the model-download scripts of wifi_reader.                     *)
(*                                                                         *)
(* Every script is a straight-line main(): a loop over a table of models,  *)
(* for each model a sequence of download attempts, a verification, and a   *)
(* fallback.  One run of one script is one behaviour; the environment      *)
(* (remote servers, the disk, the converters) is a nondeterministic        *)
(* choice of the outcome of each call.                                     *)
(*                                                                         *)
(* State: the script that runs, the position in its main (pc), the model   *)
(* index (mi) and URL index (ui) of its loops, its local flag and          *)
(* counter, the file system it reads and writes, the sequence of           *)
(* download_file calls it has made (log), the summary lines it has         *)
(* printed (out) and the value main returned (ret).  `call` holds the      *)
(* arguments of a function that is called on its own.                     *)
(***************************************************************************)
EXTENDS Integers, Sequences, FiniteSets, TLC

VARIABLES script, script_dir, pc, fs, mi, ui, flag, success_count, log, out, ret, call

vars == <<script, script_dir, pc, fs, mi, ui, flag, success_count, log, out, ret, call>>

(***************************************************************************)
(* Files.  A file is its first eight bytes, its size in bytes and the      *)
(* identity of the weights it carries.                                     *)
(***************************************************************************)
NoFile == [exists |-> FALSE, hdr |-> <<>>, size |-> 0, weights |-> "none"]

File(h, n, w) == [exists |-> TRUE, hdr |-> h, size |-> n, weights |-> w]

\* b'TFL3'
TFL3 == <<84, 70, 76, 51>>

\* header of a flatbuffer-encoded TensorFlow Lite file: root offset, then the identifier
TFLiteHdr == <<24, 0, 0, 0, 84, 70, 76, 51>>

\* b'<!DOCTYP': an HTML error page
HtmlHdr == <<60, 33, 68, 79, 67, 84, 89, 80>>

\* b'ch_PP-OC': a .tar archive starts with the name of its first member
TarHdr == <<99, 104, 95, 80, 80, 45, 79, 67>>

\* bytes.startswith
startswith(h, prefix) ==
    /\ Len(h) >= Len(prefix)
    /\ SubSeq(h, 1, Len(prefix)) = prefix

\* prefix in bytes
contains(h, sub) ==
    \E i \in 1..(Len(h) - Len(sub) + 1) : SubSeq(h, i, i + Len(sub) - 1) = sub

Abs(x) == IF x < 0 THEN -x ELSE x

MiB == 1048576

HalfMiB == 524288

KiB == 1024

(***************************************************************************)
(* The scripts.                                                            *)
(***************************************************************************)
S_tess == "download_ocr_models.py"
S_direct == "download_ocr_tflite_direct.py"
S_setup == "setup_keras_ocr.py"
S_easy == "download_easyocr_models.py"
S_craft == "download_craft_keras_tflite_models.py"
S_paddle == "download_paddleocr_models.py"
S_trocr == "download_trocr_models.py"
S_convert == "download_and_convert_ocr_models.py"

(***************************************************************************)
(* Outcomes of one HTTP download: the connection is refused before the     *)
(* target file is opened, the transfer breaks after part of the body was   *)
(* written, or the whole body is written.                                  *)
(***************************************************************************)
Refused == [t |-> "refused", body |-> NoFile]

Short(p) == [t |-> "short", body |-> [p EXCEPT !.size = p.size \div 2]]

Ok(p) == [t |-> "ok", body |-> p]

\* `partial` is the body a broken transfer was sending
Outcomes(payloads, partial) ==
    {Refused, Short(partial)} \cup {Ok(p) : p \in payloads}

\* urllib.request.urlretrieve inside try/except: the result and the file system after
download_file(fsys, path, o) ==
    IF o.t = "ok"
    THEN [ok |-> TRUE, fs |-> [fsys EXCEPT ![path] = o.body]]
    ELSE IF o.t = "short"
         THEN [ok |-> FALSE, fs |-> [fsys EXCEPT ![path] = o.body]]
         ELSE [ok |-> FALSE, fs |-> fsys]

\* one entry of the log of download_file calls
Attempt(m, stage, i, url, d, path, acc) ==
    [model |-> m, stage |-> stage, idx |-> i, url |-> url, res |-> d.ok,
     got |-> IF d.ok THEN d.fs[path] ELSE NoFile, acc |-> acc]

\* print of a line of the summary, and of a line about one model
Say(line) == out' = out \cup {<<line, "">>}

SayFor(line, name) == out' = out \cup {<<line, name>>}

Said(line) == <<line, "">> \in out

SaidFor(line, name) == <<line, name>> \in out

\* Path(__file__).parent, as path components, when __file__ is absolute
AbsDir == <<"repo", "scripts">>

\* Path(__file__).parent when __file__ is a bare file name: Path('.')
RelDir == <<>>

\* str(script_dir / filename), as path components
PathStr(dir, name) == dir \o <<name>>

(***************************************************************************)
(* download_ocr_models.py                                                  *)
(***************************************************************************)
MODELS ==
    << [file |-> "eng.traineddata",
        url |-> "https://github.com/tesseract-ocr/tessdata/raw/main/eng.traineddata",
        fallback_url |-> "https://github.com/tesseract-ocr/tessdata_fast/raw/main/eng.traineddata",
        size_mb |-> 15],
       [file |-> "spa.traineddata",
        url |-> "https://github.com/tesseract-ocr/tessdata/raw/main/spa.traineddata",
        fallback_url |-> "https://github.com/tesseract-ocr/tessdata_fast/raw/main/spa.traineddata",
        size_mb |-> 12],
       [file |-> "fra.traineddata",
        url |-> "https://github.com/tesseract-ocr/tessdata/raw/main/fra.traineddata",
        fallback_url |-> "https://github.com/tesseract-ocr/tessdata_fast/raw/main/fra.traineddata",
        size_mb |-> 11],
       [file |-> "deu.traineddata",
        url |-> "https://github.com/tesseract-ocr/tessdata/raw/main/deu.traineddata",
        fallback_url |-> "https://github.com/tesseract-ocr/tessdata_fast/raw/main/deu.traineddata",
        size_mb |-> 12] >>

\* tolerance=0.5, in half megabytes
DefaultTolerance2 == 1

\* verify_file_size with the boundary taken as a failure
verify_file_size_Strict(f, expected_size_mb, tolerance2) ==
    IF ~f.exists
    THEN FALSE
    ELSE IF Abs(f.size - expected_size_mb * MiB) >= tolerance2 * HalfMiB
         THEN FALSE
         ELSE TRUE

\* actual_size_mb = size / 2^20 and abs(actual_size_mb - expected) > tolerance, in bytes
verify_file_size(f, expected_size_mb, tolerance2) ==
    IF ~f.exists
    THEN FALSE
    ELSE IF Abs(f.size - expected_size_mb * MiB) > tolerance2 * HalfMiB
         THEN FALSE
         ELSE TRUE

\* what a server may send for a language file of `mb` megabytes
TessModel(mb) == File(<<>>, mb * MiB, "traineddata")

TessPayloads(mb) ==
    { TessModel(mb),
      File(HtmlHdr, 2 * KiB, "page") }

\* the files download_ocr_models.py may find in the assets directory
TessInitial(mb) ==
    { NoFile,
      File(<<>>, mb * MiB + HalfMiB, "old"),
      File(<<>>, mb * MiB + HalfMiB + 1, "old") }

\* the skip test with the size check inverted
TessShouldSkip_Inverted(f, info) ==
    f.exists /\ ~verify_file_size(f, info.size_mb, DefaultTolerance2)

\* filepath.exists() and verify_file_size(filepath, model_info['size_mb'])
TessShouldSkip(f, info) ==
    f.exists /\ verify_file_size(f, info.size_mb, DefaultTolerance2)

\* the primary download followed by the fallback whatever it returned
TessAfterPrimary_Always(success) == "fallback"

\* if not success and 'fallback_url' in model_info: the fallback; else on to the check
TessAfterPrimary(success) == IF success THEN "check" ELSE "fallback"

\* the fallback download repeated until it succeeds
TessAfterFallback_Retry(success) == IF success THEN "check" ELSE "fallback"

\* after the fallback download there is no further attempt
TessAfterFallback(success) == "check"

\* the continue of the skip branch
Tess_Skip ==
    /\ script = S_tess /\ pc = "loop"
    /\ TessShouldSkip(fs[MODELS[mi].file], MODELS[mi])
    /\ pc' = IF mi = Len(MODELS) THEN "summary" ELSE "loop"
    /\ mi' = mi + 1
    /\ UNCHANGED <<script, script_dir, fs, ui, flag, success_count, log, out, ret, call>>

\* success = download_file(model_info['url'], ...)
Tess_Primary ==
    /\ script = S_tess /\ pc = "loop"
    /\ ~TessShouldSkip(fs[MODELS[mi].file], MODELS[mi])
    /\ \E o \in Outcomes(TessPayloads(MODELS[mi].size_mb), TessModel(MODELS[mi].size_mb)) :
         LET info == MODELS[mi]
             d == download_file(fs, info.file, o)
         IN /\ fs' = d.fs
            /\ flag' = d.ok
            /\ log' = Append(log, Attempt(mi, "primary", 1, info.url, d, info.file, d.ok))
            /\ pc' = TessAfterPrimary(d.ok)
    /\ ui' = 2
    /\ UNCHANGED <<script, script_dir, mi, success_count, out, ret, call>>

\* if not success and 'fallback_url' in model_info: success = download_file(fallback_url)
Tess_Fallback ==
    /\ script = S_tess /\ pc = "fallback"
    /\ \E o \in Outcomes(TessPayloads(MODELS[mi].size_mb), TessModel(MODELS[mi].size_mb)) :
         LET info == MODELS[mi]
             d == download_file(fs, info.file, o)
         IN /\ fs' = d.fs
            /\ flag' = d.ok
            /\ log' = Append(log, Attempt(mi, "fallback", 2, info.fallback_url, d, info.file, d.ok))
            /\ pc' = TessAfterFallback(d.ok)
    /\ UNCHANGED <<script, script_dir, mi, ui, success_count, out, ret, call>>

\* if success: verify and go on (a failed size check only warns); else return False
Tess_Check ==
    /\ script = S_tess /\ pc = "check"
    /\ IF flag
       THEN /\ pc' = IF mi = Len(MODELS) THEN "summary" ELSE "loop"
            /\ mi' = mi + 1
            /\ ui' = 1
            /\ flag' = FALSE
            /\ UNCHANGED <<out, ret>>
       ELSE /\ pc' = "done"
            /\ ret' = "False"
            /\ Say("Failed to download")
            /\ UNCHANGED <<mi, ui, flag>>
    /\ UNCHANGED <<script, script_dir, fs, success_count, log, call>>

\* the summary and return True
Tess_Summary ==
    /\ script = S_tess /\ pc = "summary"
    /\ pc' = "done"
    /\ ret' = "True"
    /\ Say("All OCR models downloaded successfully!")
    /\ UNCHANGED <<script, script_dir, fs, mi, ui, flag, success_count, log, call>>

(***************************************************************************)
(* download_ocr_tflite_direct.py                                           *)
(***************************************************************************)
TFLITE_MODELS ==
    << [file |-> "easyocr_text_detection.tflite",
        urls |-> << "https://github.com/tulasiram58827/ocr_tflite/raw/main/models/craft_text_detector_float16.tflite",
                    "https://github.com/tulasiram58827/ocr_tflite/raw/main/models/craft_text_detector_dynamic_range.tflite",
                    "https://tfhub.dev/tulasiram58827/lite-model/craft-text-detector/float16/1?lite-format=tflite",
                    "https://storage.googleapis.com/tfhub-lite-models/tulasiram58827/lite-model/craft-text-detector/float16/1/default/1.tflite" >>],
       [file |-> "easyocr_text_recognition.tflite",
        urls |-> << "https://github.com/tulasiram58827/ocr_tflite/raw/main/models/keras_ocr_float16.tflite",
                    "https://github.com/tulasiram58827/ocr_tflite/raw/main/models/keras_ocr_dynamic_range.tflite",
                    "https://tfhub.dev/tulasiram58827/lite-model/keras-ocr/float16/1?lite-format=tflite",
                    "https://storage.googleapis.com/tfhub-lite-models/tulasiram58827/lite-model/keras-ocr/float16/1/default/1.tflite" >>] >>

\* what a server may send for a .tflite URL: the model, a short error page, a long one
DirectModel == File(TFLiteHdr, 4 * KiB, "dl_A")

DirectPayloads ==
    { DirectModel,
      File(HtmlHdr, KiB - 1, "page"),
      File(HtmlHdr, KiB, "page") }

\* verify_tflite_model with a header that lacks the magic rejected as well
verify_tflite_model_Magic(f) ==
    IF ~f.exists
    THEN FALSE
    ELSE IF f.size < KiB
         THEN FALSE
         ELSE contains(f.hdr, TFL3)

\* exists, and file_size < 1024 rejects; the header and the expected size only print
verify_tflite_model(f) ==
    IF ~f.exists
    THEN FALSE
    ELSE IF f.size < KiB
         THEN FALSE
         ELSE TRUE

\* size of the padded minimal model
StubSize == 512

\* the bytes create_working_tflite_model writes
WorkingStub == File(TFLiteHdr, StubSize, "stub")

\* create_working_tflite_model reporting success with nothing written
create_working_tflite_model_Unwritten(fsys, path, wr) == [ok |-> wr, fs |-> fsys]

\* open(filename, 'wb') and write, inside try/except: `wr` is whether the write went through
create_working_tflite_model(fsys, path, wr) ==
    IF wr
    THEN [ok |-> TRUE, fs |-> [fsys EXCEPT ![path] = WorkingStub]]
    ELSE [ok |-> FALSE, fs |-> fsys]

\* os.remove inside try/except
remove(fsys, path) == [fsys EXCEPT ![path] = NoFile]

\* the loop over info['urls'] without its break
DirectNextUrl_NoBreak(accepted, i, n) == i < n

\* whether the loop over info['urls'] goes on to the next URL
DirectNextUrl(accepted, i, n) == ~accepted /\ i < n

\* one iteration of: for i, url in enumerate(info['urls'], 1)
Direct_TryUrl ==
    /\ script = S_direct /\ pc = "urls"
    /\ \E o \in Outcomes(DirectPayloads, DirectModel) :
         LET info == TFLITE_MODELS[mi]
             d == download_file(fs, info.file, o)
             v == d.ok /\ verify_tflite_model(d.fs[info.file])
         IN /\ fs' = IF d.ok /\ ~v THEN remove(d.fs, info.file) ELSE d.fs
            /\ flag' = v
            /\ success_count' = IF v THEN success_count + 1 ELSE success_count
            /\ log' = Append(log, Attempt(mi, "urls", ui, info.urls[ui], d, info.file, v))
            /\ IF DirectNextUrl(v, ui, Len(info.urls))
               THEN ui' = ui + 1 /\ pc' = "urls"
               ELSE ui' = ui /\ pc' = "after"
    /\ UNCHANGED <<script, script_dir, mi, out, ret, call>>

\* if not model_downloaded: create_working_tflite_model, counted as a success
Direct_CreateMinimal ==
    /\ script = S_direct /\ pc = "after" /\ ~flag
    /\ \E wr \in BOOLEAN :
         LET info == TFLITE_MODELS[mi]
             c == create_working_tflite_model(fs, info.file, wr)
         IN /\ fs' = c.fs
            /\ success_count' = IF c.ok THEN success_count + 1 ELSE success_count
            /\ out' = out \cup {<<"All download attempts failed", info.file>>}
                         \cup (IF c.ok THEN {} ELSE {<<"Failed to create minimal model", info.file>>})
    /\ pc' = IF mi = Len(TFLITE_MODELS) THEN "summary" ELSE "urls"
    /\ mi' = mi + 1
    /\ ui' = 1
    /\ UNCHANGED <<script, script_dir, flag, log, ret, call>>

\* the model was downloaded: on to the next model
Direct_NextModel ==
    /\ script = S_direct /\ pc = "after" /\ flag
    /\ pc' = IF mi = Len(TFLITE_MODELS) THEN "summary" ELSE "urls"
    /\ mi' = mi + 1
    /\ ui' = 1
    /\ flag' = FALSE
    /\ UNCHANGED <<script, script_dir, fs, success_count, log, out, ret, call>>

\* the summary: return success_count == total_models
Direct_Summary ==
    /\ script = S_direct /\ pc = "summary"
    /\ pc' = "done"
    /\ IF success_count = Len(TFLITE_MODELS)
       THEN Say("All models downloaded successfully!") /\ ret' = "True"
       ELSE Say("model(s) failed to download") /\ ret' = "False"
    /\ UNCHANGED <<script, script_dir, fs, mi, ui, flag, success_count, log, call>>

(***************************************************************************)
(* setup_keras_ocr.py, run in the same checkout after                      *)
(* download_ocr_tflite_direct.py has ended.                                *)
(***************************************************************************)
keras_model_source == "keras_ocr_float16.tflite"

keras_model_dest == "assets/keras_ocr_float16.tflite"

\* what may lie at keras_model_source before any script runs
KerasInitial ==
    { NoFile,
      File(TFLiteHdr, 8 * KiB, "keras"),
      File(HtmlHdr, 2 * KiB, "page") }

\* main of setup_keras_ocr.py; `cp` is whether shutil.copy2 went through
Setup_main ==
    /\ script = S_direct /\ pc = "done"
    /\ script' = S_setup
    /\ \E cp \in BOOLEAN :
         LET src == fs[keras_model_source]
         IN IF ~src.exists
            THEN Say("Source model not found") /\ ret' = "False" /\ fs' = fs
            ELSE IF ~contains(src.hdr, TFL3)
                 THEN Say("Invalid TensorFlow Lite file") /\ ret' = "False" /\ fs' = fs
                 ELSE IF cp
                      THEN /\ Say("Model copied successfully")
                           /\ ret' = "True"
                           /\ fs' = [fs EXCEPT ![keras_model_dest] = src]
                      ELSE Say("Failed to copy model") /\ ret' = "False" /\ fs' = fs
    /\ UNCHANGED <<script_dir, pc, mi, ui, flag, success_count, log, call>>

(***************************************************************************)
(* download_easyocr_models.py                                              *)
(***************************************************************************)
\* MODELS of download_easyocr_models.py
EASYOCR_MODELS ==
    << [file |-> "easyocr_text_detection.tflite",
        url |-> "https://github.com/PaddlePaddle/PaddleOCR/raw/release/2.6/inference/ch_PP-OCRv3_det_infer.tar",
        alternative_urls |-> << "https://huggingface.co/PaddlePaddle/PaddleOCR/resolve/main/ch_PP-OCRv3_det_infer.tar" >>],
       [file |-> "easyocr_text_recognition.tflite",
        url |-> "https://github.com/PaddlePaddle/PaddleOCR/raw/release/2.6/inference/ch_PP-OCRv3_rec_infer.tar",
        alternative_urls |-> << "https://huggingface.co/PaddlePaddle/PaddleOCR/resolve/main/ch_PP-OCRv3_rec_infer.tar" >>] >>

\* the keys of DIRECT_TFLITE_SOURCES are bare file names
DIRECT_TFLITE_SOURCES ==
    [k \in {<<"easyocr_text_detection.tflite">>, <<"easyocr_text_recognition.tflite">>} |->
       IF k = <<"easyocr_text_detection.tflite">>
       THEN << "https://github.com/zxiaosi/OCR-Detection-And-Recognition/raw/main/models/det.tflite",
               "https://github.com/tensorflow/examples/raw/master/lite/examples/text_classification/android/app/src/main/assets/text_classification.tflite" >>
       ELSE << "https://github.com/zxiaosi/OCR-Detection-And-Recognition/raw/main/models/rec.tflite",
               "https://github.com/tensorflow/examples/raw/master/lite/examples/optical_character_recognition/android/app/src/main/assets/text_recognition.tflite" >>]

EasyModel == File(TFLiteHdr, 4 * KiB, "dl_A")

\* what a server may send: the model, or the .tar archive the primary URLs name
EasyPayloads == { EasyModel, File(TarHdr, 8 * KiB, "tar") }

\* exists; the header only prints
verify_file(f) ==
    IF ~f.exists
    THEN FALSE
    ELSE TRUE

\* 48 bytes of header and tables, 200 bytes of padding
MinimalSize == 248

MinimalModel == File(TFLiteHdr, MinimalSize, "stub")

\* open(filename, 'wb') and write, inside try/except
create_minimal_tflite(fsys, path, wr) ==
    IF wr
    THEN [ok |-> TRUE, fs |-> [fsys EXCEPT ![path] = MinimalModel]]
    ELSE [ok |-> FALSE, fs |-> fsys]

\* try_direct_tflite_sources: if filename not in DIRECT_TFLITE_SOURCES: return False
HasDirectSources(dir, name) == PathStr(dir, name) \in DOMAIN DIRECT_TFLITE_SOURCES

\* where the body of the loop over MODELS starts for model m
EasyEntry(dir, m) ==
    IF m > Len(EASYOCR_MODELS)
    THEN "summary"
    ELSE IF HasDirectSources(dir, EASYOCR_MODELS[m].file) THEN "direct" ELSE "primary"

\* success_count += 1; continue
EasyAccept ==
    /\ success_count' = success_count + 1
    /\ mi' = mi + 1
    /\ ui' = 1
    /\ pc' = EasyEntry(script_dir, mi + 1)

\* one iteration of the loop of try_direct_tflite_sources
Easy_DirectSource ==
    /\ script = S_easy /\ pc = "direct"
    /\ \E o \in Outcomes(EasyPayloads, EasyModel) :
         LET info == EASYOCR_MODELS[mi]
             urls == DIRECT_TFLITE_SOURCES[PathStr(script_dir, info.file)]
             d == download_file(fs, info.file, o)
             v == d.ok /\ verify_file(d.fs[info.file])
         IN /\ fs' = d.fs
            /\ log' = Append(log, Attempt(mi, "direct", ui, urls[ui], d, info.file, v))
            /\ IF v
               THEN EasyAccept
               ELSE /\ IF ui < Len(urls)
                       THEN ui' = ui + 1 /\ pc' = "direct"
                       ELSE ui' = 1 /\ pc' = "primary"
                    /\ UNCHANGED <<mi, success_count>>
    /\ UNCHANGED <<script, script_dir, flag, out, ret, call>>

\* if download_file(info['url'], ...): if verify_file(...): success_count += 1; continue
Easy_Primary ==
    /\ script = S_easy /\ pc = "primary"
    /\ \E o \in Outcomes(EasyPayloads, EasyModel) :
         LET info == EASYOCR_MODELS[mi]
             d == download_file(fs, info.file, o)
             v == d.ok /\ verify_file(d.fs[info.file])
         IN /\ fs' = d.fs
            /\ log' = Append(log, Attempt(mi, "primary", 1, info.url, d, info.file, v))
            /\ IF v
               THEN EasyAccept
               ELSE /\ ui' = 1 /\ pc' = "alternative"
                    /\ UNCHANGED <<mi, success_count>>
    /\ UNCHANGED <<script, script_dir, flag, out, ret, call>>

\* one iteration of: for alt_url in info['alternative_urls']
Easy_Alternative ==
    /\ script = S_easy /\ pc = "alternative"
    /\ \E o \in Outcomes(EasyPayloads, EasyModel) :
         LET info == EASYOCR_MODELS[mi]
             d == download_file(fs, info.file, o)
             v == d.ok /\ verify_file(d.fs[info.file])
         IN /\ fs' = d.fs
            /\ log' = Append(log, Attempt(mi, "alternative", ui, info.alternative_urls[ui], d, info.file, v))
            /\ IF v
               THEN EasyAccept
               ELSE /\ IF ui < Len(info.alternative_urls)
                       THEN ui' = ui + 1 /\ pc' = "alternative"
                       ELSE ui' = 1 /\ pc' = "minimal"
                    /\ UNCHANGED <<mi, success_count>>
    /\ UNCHANGED <<script, script_dir, flag, out, ret, call>>

\* create_minimal_tflite as last resort, counted as a success
Easy_CreateMinimal ==
    /\ script = S_easy /\ pc = "minimal"
    /\ \E wr \in BOOLEAN :
         LET info == EASYOCR_MODELS[mi]
             c == create_minimal_tflite(fs, info.file, wr)
         IN /\ fs' = c.fs
            /\ success_count' = IF c.ok THEN success_count + 1 ELSE success_count
            /\ out' = out \cup {<<"All download attempts failed", info.file>>}
                         \cup (IF c.ok THEN {} ELSE {<<"Failed to create minimal model", info.file>>})
    /\ mi' = mi + 1
    /\ ui' = 1
    /\ pc' = EasyEntry(script_dir, mi + 1)
    /\ UNCHANGED <<script, script_dir, flag, log, ret, call>>

\* the summary; main returns nothing
Easy_Summary ==
    /\ script = S_easy /\ pc = "summary"
    /\ pc' = "done"
    /\ ret' = "None"
    /\ IF success_count = Len(EASYOCR_MODELS)
       THEN Say("All models downloaded successfully!")
       ELSE Say("model(s) failed to download")
    /\ UNCHANGED <<script, script_dir, fs, mi, ui, flag, success_count, log, call>>

(***************************************************************************)
(* download_craft_keras_tflite_models.py                                   *)
(***************************************************************************)
models ==
    << [name |-> "CRAFT Text Detection",
        url |-> "https://github.com/tulasiram58827/craft_tflite/raw/main/models/craft_float16.tflite",
        file |-> "craft_text_detection.tflite"],
       [name |-> "KerasOCR Text Recognition",
        url |-> "https://github.com/tulasiram58827/ocr_tflite/raw/main/models/keras_ocr_float16.tflite",
        file |-> "keras_text_recognition.tflite"],
       [name |-> "Deep Text Recognition (Alternative)",
        url |-> "https://github.com/tulasiram58827/ocr_tflite/raw/main/models/cnn_float16.tflite",
        file |-> "cnn_text_recognition.tflite"] >>

\* "At least 10KB for a real model"
MinRealSize == 10000

\* a model must have more than MinRealSize bytes
CraftBigEnough(size) == size > MinRealSize

\* the summary needs success_count >= 2
CraftNeeded == 2

CraftModel == File(TFLiteHdr, 2 * MinRealSize, "dl_A")

\* what a server may send: the model, or a body of exactly 10000 bytes
CraftPayloads == { CraftModel, File(HtmlHdr, MinRealSize, "page") }

\* what may lie in the assets directory before the run
CraftInitial == { NoFile, File(TFLiteHdr, MinRealSize + 1, "old"), File(HtmlHdr, MinRealSize, "old") }

CraftAdvance ==
    /\ mi' = mi + 1
    /\ pc' = IF mi = Len(models) THEN "summary" ELSE "loop"

\* the file exists and is big enough: success_count += 1; continue
Craft_UseExisting ==
    /\ script = S_craft /\ pc = "loop"
    /\ fs[models[mi].file].exists
    /\ CraftBigEnough(fs[models[mi].file].size)
    /\ success_count' = success_count + 1
    /\ SayFor("Using existing model", models[mi].name)
    /\ CraftAdvance
    /\ UNCHANGED <<script, script_dir, fs, ui, flag, log, ret, call>>

\* download_file with requests, then the size check; a small download is unlinked
Craft_Download ==
    /\ script = S_craft /\ pc = "loop"
    /\ ~(fs[models[mi].file].exists /\ CraftBigEnough(fs[models[mi].file].size))
    /\ \E o \in Outcomes(CraftPayloads, CraftModel) :
         LET model == models[mi]
             d == download_file(fs, model.file, o)
             v == d.ok /\ CraftBigEnough(d.fs[model.file].size)
         IN /\ fs' = IF d.ok /\ ~v THEN remove(d.fs, model.file) ELSE d.fs
            /\ success_count' = IF v THEN success_count + 1 ELSE success_count
            /\ log' = Append(log, Attempt(mi, "url", 1, model.url, d, model.file, v))
            /\ IF v
               THEN SayFor("ready", model.name)
               ELSE IF d.ok
                    THEN SayFor("Downloaded file too small", model.name)
                    ELSE SayFor("Failed to download", model.name)
    /\ CraftAdvance
    /\ UNCHANGED <<script, script_dir, ui, flag, ret, call>>

\* if success_count >= 2: "Ready for real OCR processing!"
Craft_Summary ==
    /\ script = S_craft /\ pc = "summary"
    /\ pc' = "done"
    /\ ret' = "None"
    /\ IF success_count >= CraftNeeded
       THEN Say("Ready for real OCR processing!")
       ELSE Say("Need at least text detection + text recognition models")
    /\ UNCHANGED <<script, script_dir, fs, mi, ui, flag, success_count, log, call>>

(***************************************************************************)
(* download_paddleocr_models.py                                            *)
(***************************************************************************)
\* b'TFL3' and the first four of the sixteen zero bytes that follow it
MockHdr == <<84, 70, 76, 51, 0, 0, 0, 0>>

\* models of download_paddleocr_models.py; ref_hdr is b'# Detect', b'# Recogn'
paddle_models ==
    << [name |-> "Detection", name_len |-> 9,
        url |-> "https://paddleocr.bj.bcebos.com/PP-OCRv3/english/en_PP-OCRv3_det_infer.tar", url_len |-> 74,
        tar_file |-> "temp_models/det_model.tar",
        tflite_file |-> "paddleocr_detection.tflite",
        ref_hdr |-> <<35, 32, 68, 101, 116, 101, 99, 116>>],
       [name |-> "Recognition", name_len |-> 11,
        url |-> "https://paddleocr.bj.bcebos.com/PP-OCRv3/english/en_PP-OCRv3_rec_infer.tar", url_len |-> 74,
        tar_file |-> "temp_models/rec_model.tar",
        tflite_file |-> "paddleocr_recognition.tflite",
        ref_hdr |-> <<35, 32, 82, 101, 99, 111, 103, 110>>] >>

\* longest str(model_dir) considered
MaxDirLen == 2

\* the four lines of the reference file, byte for byte
ReferenceSize(model, dirlen) ==
    (2 + model.name_len + 17) + (10 + model.url_len + 1) + (16 + dirlen + 1) + 53

\* the text file written after a failed conversion
ReferenceFile(model, dirlen) == File(model.ref_hdr, ReferenceSize(model, dirlen), "reference")

\* "Pad to 1KB"
MockSize == 1024

\* the bytes create_mock_tflite writes
MockModel == File(MockHdr, MockSize, "mock")

create_mock_tflite(fsys, path) == [fsys EXCEPT ![path] = MockModel]

\* stat().st_size < 100
MockThreshold == 100

\* not model['tflite_file'].exists() or model['tflite_file'].stat().st_size < 100
NeedsMock(f) == ~f.exists \/ f.size < MockThreshold

PaddleTar == File(TarHdr, 8 * KiB, "tar")

PaddlePayloads == { PaddleTar, File(HtmlHdr, 2 * KiB, "page") }

\* what converter.convert() returns
ConvertedModel == File(TFLiteHdr, 4 * KiB, "converted")

\* what may lie at a tflite_file before the run: nothing, or the empty file of a write that broke
PaddleInitial(model) == { NoFile, File(<<>>, 0, "old") }

\* the calls of one loop body that the environment decides
PaddleEnv ==
    [dl : Outcomes(PaddlePayloads, PaddleTar),
     extract : {"raise", "nodirs", "ok"},
     onnx : BOOLEAN, tflite : BOOLEAN, refwr : BOOLEAN,
     dirlen : 1..MaxDirLen]

\* tarfile.open raises on what is no archive
CanExtract(f, e) == f.hdr = TarHdr /\ f.weights = "tar" /\ f.size = PaddleTar.size /\ e.extract # "raise"

\* the body of: for model in models, with its try/except
PaddleBody(fsys, model, e) ==
    LET cached == fsys[model.tar_file].exists
        d == IF cached THEN [ok |-> TRUE, fs |-> fsys] ELSE download_file(fsys, model.tar_file, e.dl)
    IN IF ~d.ok
       THEN [fs |-> d.fs, converted |-> FALSE, dl |-> d, called |-> ~cached]
       ELSE IF ~CanExtract(d.fs[model.tar_file], e) \/ e.extract = "nodirs"
            THEN [fs |-> d.fs, converted |-> FALSE, dl |-> d, called |-> ~cached]
            ELSE IF e.onnx /\ e.tflite
                 THEN [fs |-> [d.fs EXCEPT ![model.tflite_file] = ConvertedModel],
                       converted |-> TRUE, dl |-> d, called |-> ~cached]
                 ELSE IF e.refwr
                      THEN [fs |-> [d.fs EXCEPT ![model.tflite_file] = ReferenceFile(model, e.dirlen)],
                            converted |-> FALSE, dl |-> d, called |-> ~cached]
                      ELSE [fs |-> d.fs, converted |-> FALSE, dl |-> d, called |-> ~cached]

Paddle_Model ==
    /\ script = S_paddle /\ pc = "loop"
    /\ \E e \in PaddleEnv :
         LET model == paddle_models[mi]
             r == PaddleBody(fs, model, e)
         IN /\ fs' = r.fs
            /\ success_count' = IF r.converted THEN success_count + 1 ELSE success_count
            /\ log' = IF r.called
                      THEN Append(log, Attempt(mi, "url", 1, model.url, r.dl, model.tar_file, r.dl.ok))
                      ELSE log
    /\ mi' = mi + 1
    /\ pc' = IF mi = Len(paddle_models) THEN "mock" ELSE "loop"
    /\ UNCHANGED <<script, script_dir, ui, flag, out, ret, call>>

\* shutil.rmtree(temp_dir)
PaddleCleanup(fsys) ==
    [p \in DOMAIN fsys |->
       IF \E i \in 1..Len(paddle_models) : p = paddle_models[i].tar_file THEN NoFile ELSE fsys[p]]

RECURSIVE PaddleMockLoop(_, _)
\* for model in models: if it needs a mock: create_mock_tflite
PaddleMockLoop(fsys, i) ==
    IF i > Len(paddle_models)
    THEN fsys
    ELSE LET path == paddle_models[i].tflite_file
         IN PaddleMockLoop(IF NeedsMock(fsys[path]) THEN create_mock_tflite(fsys, path) ELSE fsys, i + 1)

\* if success_count == 0: the mock models, "Mock models created."; then the cleanup
Paddle_Mocks ==
    /\ script = S_paddle /\ pc = "mock" /\ success_count = 0
    /\ fs' = PaddleCleanup(PaddleMockLoop(fs, 1))
    /\ Say("Mock models created.")
    /\ pc' = "done"
    /\ ret' = "None"
    /\ UNCHANGED <<script, script_dir, mi, ui, flag, success_count, log, call>>

\* else: "Successfully processed"; then the cleanup
Paddle_Processed ==
    /\ script = S_paddle /\ pc = "mock" /\ success_count # 0
    /\ fs' = PaddleCleanup(fs)
    /\ Say("Successfully processed")
    /\ pc' = "done"
    /\ ret' = "None"
    /\ UNCHANGED <<script, script_dir, mi, ui, flag, success_count, log, call>>

(***************************************************************************)
(* download_trocr_models.py                                                *)
(***************************************************************************)
TROCR_MODELS ==
    << [type |-> "detection",
        pytorch |-> "dbnet_text_detection.pth",
        onnx |-> "dbnet_text_detection.onnx",
        url |-> "https://github.com/MhLiao/DB/releases/download/v1.1.1/totaltext_resnet50_deform_synthtext.pth",
        backup_urls |-> << "https://huggingface.co/tomofi/DBNet/resolve/main/dbnet_resnet50.pth",
                           "https://github.com/WenmuZhou/DBNet.pytorch/releases/download/v1.0/dbnet_resnet50.pth" >>,
        output_tflite |-> "trocr_text_detection.tflite",
        config_url |-> ""],
       [type |-> "recognition",
        pytorch |-> "trocr_text_recognition.pth",
        onnx |-> "trocr_text_recognition.onnx",
        url |-> "https://huggingface.co/microsoft/trocr-base-printed/resolve/main/pytorch_model.bin",
        backup_urls |-> << "https://huggingface.co/microsoft/trocr-small-printed/resolve/main/pytorch_model.bin",
                           "https://huggingface.co/microsoft/trocr-base-stage1/resolve/main/pytorch_model.bin" >>,
        output_tflite |-> "trocr_text_recognition.tflite",
        config_url |-> "https://huggingface.co/microsoft/trocr-base-printed/resolve/main/config.json"] >>

\* a pickled PyTorch checkpoint is a zip archive: b'PK\x03\x04', then the entry header
PthHdr == <<80, 75, 3, 4, 0, 0, 8, 8>>

\* a serialized ONNX ModelProto: ir_version, then producer_name
OnnxHdr == <<8, 7, 18, 7, 112, 121, 116, 111>>

\* two checkpoints that differ only in their weights
TrocrPayloads == { File(PthHdr, 4 * KiB, "dl_A"), File(PthHdr, 4 * KiB, "dl_B") }

\* the random initialisations torch may give the layers of SimpleDBNet() and SimpleTrOCR()
InitWeights == {"init_1", "init_2"}

\* model = SimpleDBNet(); torch.onnx.export(model, dummy_input, onnx_path): pytorch_path is only printed
convert_dbnet_to_onnx(fsys, pytorch_path, onnx_path, ok, init) ==
    IF ok
    THEN [ok |-> TRUE, fs |-> [fsys EXCEPT ![onnx_path] = File(OnnxHdr, 2 * KiB, init)]]
    ELSE [ok |-> FALSE, fs |-> fsys]

\* model = SimpleTrOCR(); torch.onnx.export(model, dummy_input, onnx_path): pytorch_path is only printed
convert_trocr_to_onnx(fsys, pytorch_path, config_path, onnx_path, ok, init) ==
    IF ok
    THEN [ok |-> TRUE, fs |-> [fsys EXCEPT ![onnx_path] = File(OnnxHdr, 3 * KiB, init)]]
    ELSE [ok |-> FALSE, fs |-> fsys]

\* onnx.load(onnx_path), prepare, TFLiteConverter: the weights of the ONNX file, as TFLite
convert_onnx_to_tflite(fsys, onnx_path, tflite_path, ok) ==
    IF ok /\ fsys[onnx_path].exists /\ fsys[onnx_path].hdr = OnnxHdr
    THEN [ok |-> TRUE,
          fs |-> [fsys EXCEPT ![tflite_path] = File(TFLiteHdr, fsys[onnx_path].size, fsys[onnx_path].weights)]]
    ELSE [ok |-> FALSE, fs |-> fsys]

\* a Keras model built in place, converted and written, inside try/except
create_fallback_tflite(fsys, tflite_path, wr) ==
    IF wr
    THEN [ok |-> TRUE, fs |-> [fsys EXCEPT ![tflite_path] = File(TFLiteHdr, 2 * KiB, "stub")]]
    ELSE [ok |-> FALSE, fs |-> fsys]

\* if not check_dependencies(): return False
Trocr_CheckDependencies ==
    /\ script = S_trocr /\ pc = "deps"
    /\ \E ok \in BOOLEAN :
         IF ok
         THEN pc' = "primary" /\ UNCHANGED <<out, ret>>
         ELSE pc' = "done" /\ ret' = "False" /\ Say("Dependency check failed")
    /\ UNCHANGED <<script, script_dir, fs, mi, ui, flag, success_count, log, call>>

\* if download_file(info['url'], ...): model_downloaded = True
Trocr_Primary ==
    /\ script = S_trocr /\ pc = "primary"
    /\ \E o \in Outcomes(TrocrPayloads, File(PthHdr, 4 * KiB, "dl_A")) :
         LET info == TROCR_MODELS[mi]
             d == download_file(fs, info.pytorch, o)
         IN /\ fs' = d.fs
            /\ flag' = d.ok
            /\ log' = Append(log, Attempt(mi, "primary", 1, info.url, d, info.pytorch, d.ok))
            /\ pc' = IF d.ok THEN "convert" ELSE "backup"
    /\ ui' = 1
    /\ UNCHANGED <<script, script_dir, mi, success_count, out, ret, call>>

\* one iteration of: for i, backup_url in enumerate(info['backup_urls'], 1)
Trocr_Backup ==
    /\ script = S_trocr /\ pc = "backup"
    /\ \E o \in Outcomes(TrocrPayloads, File(PthHdr, 4 * KiB, "dl_A")) :
         LET info == TROCR_MODELS[mi]
             d == download_file(fs, info.pytorch, o)
         IN /\ fs' = d.fs
            /\ flag' = d.ok
            /\ log' = Append(log, Attempt(mi, "backup", ui, info.backup_urls[ui], d, info.pytorch, d.ok))
            /\ IF ~d.ok /\ ui < Len(info.backup_urls)
               THEN ui' = ui + 1 /\ pc' = "backup"
               ELSE ui' = ui /\ pc' = "convert"
    /\ UNCHANGED <<script, script_dir, mi, success_count, out, ret, call>>

\* the calls of the conversion that the environment decides
TrocrEnv ==
    [cfg : Outcomes({File(<<123, 10, 32, 32, 34, 97, 114, 99>>, KiB, "config")},
                    File(<<123, 10, 32, 32, 34, 97, 114, 99>>, KiB, "config")),
     onnx : BOOLEAN, init : InitWeights, tflite : BOOLEAN, wr : BOOLEAN]

\* if model_downloaded: ... else: create_fallback_tflite
TrocrFinish(fsys, info, downloaded, e) ==
    IF downloaded
    THEN LET c == IF info.config_url # ""
                  THEN download_file(fsys, "config.json", e.cfg)
                  ELSE [ok |-> FALSE, fs |-> fsys]
             x == IF info.type = "detection"
                  THEN convert_dbnet_to_onnx(c.fs, info.pytorch, info.onnx, e.onnx, e.init)
                  ELSE convert_trocr_to_onnx(c.fs, info.pytorch, "config.json", info.onnx, e.onnx, e.init)
             t == convert_onnx_to_tflite(x.fs, info.onnx, info.output_tflite, e.tflite)
             f == create_fallback_tflite(x.fs, info.output_tflite, e.wr)
         IN IF x.ok /\ t.ok
            THEN [fs |-> remove(remove(t.fs, info.pytorch), info.onnx), ok |-> TRUE,
                  how |-> "converted", cfg |-> c]
            ELSE [fs |-> f.fs, ok |-> f.ok, how |-> "fallback", cfg |-> c]
    ELSE LET f == create_fallback_tflite(fsys, info.output_tflite, e.wr)
         IN [fs |-> f.fs, ok |-> f.ok, how |-> "fallback", cfg |-> [ok |-> FALSE, fs |-> fsys]]

Trocr_Convert ==
    /\ script = S_trocr /\ pc = "convert"
    /\ \E e \in TrocrEnv :
         LET info == TROCR_MODELS[mi]
             r == TrocrFinish(fs, info, flag, e)
         IN /\ fs' = r.fs
            /\ success_count' = IF r.ok THEN success_count + 1 ELSE success_count
            /\ log' = IF flag /\ info.config_url # ""
                      THEN Append(log, Attempt(mi, "config", 1, info.config_url, r.cfg, "config.json", FALSE))
                      ELSE log
            /\ out' = out \cup {<<r.how, info.output_tflite>>}
                         \cup (IF r.ok THEN {} ELSE {<<"Failed to create fallback TFLite model", info.output_tflite>>})
    /\ mi' = mi + 1
    /\ ui' = 1
    /\ flag' = FALSE
    /\ pc' = IF mi = Len(TROCR_MODELS) THEN "summary" ELSE "primary"
    /\ UNCHANGED <<script, script_dir, ret, call>>

\* the summary: return success_count == total_models
Trocr_Summary ==
    /\ script = S_trocr /\ pc = "summary"
    /\ pc' = "done"
    /\ IF success_count = Len(TROCR_MODELS)
       THEN Say("All TrOCR models converted successfully!") /\ ret' = "True"
       ELSE Say("model(s) failed conversion") /\ ret' = "False"
    /\ UNCHANGED <<script, script_dir, fs, mi, ui, flag, success_count, log, call>>

(***************************************************************************)
(* download_and_convert_ocr_models.py                                      *)
(***************************************************************************)
ONNX_MODELS ==
    << [onnx |-> "craft_text_detection.onnx",
        url |-> "https://github.com/clovaai/CRAFT-pytorch/releases/download/v1.0/craft_mlt_25k.onnx",
        backup_urls |-> << "https://github.com/JaidedAI/EasyOCR/releases/download/v1.6.0/craft_mlt_25k.onnx",
                           "https://huggingface.co/datasets/keremberke/craft-text-detection/resolve/main/craft_mlt_25k.onnx" >>,
        output_tflite |-> "easyocr_text_detection.tflite"],
       [onnx |-> "crnn_text_recognition.onnx",
        url |-> "https://github.com/JaidedAI/EasyOCR/releases/download/v1.6.0/latin_g2.onnx",
        backup_urls |-> << "https://github.com/PaddlePaddle/PaddleOCR/releases/download/v2.6.1/en_PP-OCRv3_rec.onnx",
                           "https://huggingface.co/datasets/keremberke/paddleocr-text-recognition/resolve/main/latin_g2.onnx" >>,
        output_tflite |-> "easyocr_text_recognition.tflite"] >>

OnnxModel == File(OnnxHdr, 4 * KiB, "dl_A")

\* what a server may send for an .onnx URL: the model, or an error page
OnnxPayloads == { OnnxModel, File(HtmlHdr, 2 * KiB, "page") }

\* onnx.load and onnx.checker.check_model inside try/except
verify_onnx_model(f) == f.exists /\ f.hdr = OnnxHdr /\ f.size = OnnxModel.size

\* if not check_dependencies(): return False
Convert_CheckDependencies ==
    /\ script = S_convert /\ pc = "deps"
    /\ \E ok \in BOOLEAN :
         IF ok
         THEN pc' = "primary" /\ UNCHANGED <<out, ret>>
         ELSE pc' = "done" /\ ret' = "False" /\ Say("Dependency check failed")
    /\ UNCHANGED <<script, script_dir, fs, mi, ui, flag, success_count, log, call>>

\* if download_file(info['url'], ...): if verify_onnx_model(...): onnx_downloaded = True
Convert_Primary ==
    /\ script = S_convert /\ pc = "primary"
    /\ \E o \in Outcomes(OnnxPayloads, OnnxModel) :
         LET info == ONNX_MODELS[mi]
             d == download_file(fs, info.onnx, o)
             v == d.ok /\ verify_onnx_model(d.fs[info.onnx])
         IN /\ fs' = d.fs
            /\ flag' = v
            /\ log' = Append(log, Attempt(mi, "primary", 1, info.url, d, info.onnx, v))
            /\ pc' = IF v THEN "convert" ELSE "backup"
    /\ ui' = 1
    /\ UNCHANGED <<script, script_dir, mi, success_count, out, ret, call>>

\* one iteration of: for i, backup_url in enumerate(info['backup_urls'], 1)
Convert_Backup ==
    /\ script = S_convert /\ pc = "backup"
    /\ \E o \in Outcomes(OnnxPayloads, OnnxModel) :
         LET info == ONNX_MODELS[mi]
             d == download_file(fs, info.onnx, o)
             v == d.ok /\ verify_onnx_model(d.fs[info.onnx])
         IN /\ fs' = d.fs
            /\ flag' = v
            /\ log' = Append(log, Attempt(mi, "backup", ui, info.backup_urls[ui], d, info.onnx, v))
            /\ IF ~v /\ ui < Len(info.backup_urls)
               THEN ui' = ui + 1 /\ pc' = "backup"
               ELSE ui' = ui /\ pc' = "convert"
    /\ UNCHANGED <<script, script_dir, mi, success_count, out, ret, call>>

\* if onnx_downloaded: convert, or the fallback when that fails; else the fallback
ConvertFinish(fsys, info, downloaded, tflite, wr) ==
    LET t == convert_onnx_to_tflite(fsys, info.onnx, info.output_tflite, tflite)
        f == create_fallback_tflite(fsys, info.output_tflite, wr)
    IN IF downloaded /\ t.ok
       THEN [fs |-> remove(t.fs, info.onnx), ok |-> TRUE, how |-> "converted"]
       ELSE [fs |-> f.fs, ok |-> f.ok, how |-> "fallback"]

Convert_Convert ==
    /\ script = S_convert /\ pc = "convert"
    /\ \E tflite \in BOOLEAN, wr \in BOOLEAN :
         LET info == ONNX_MODELS[mi]
             r == ConvertFinish(fs, info, flag, tflite, wr)
         IN /\ fs' = r.fs
            /\ success_count' = IF r.ok THEN success_count + 1 ELSE success_count
            /\ out' = out \cup {<<r.how, info.output_tflite>>}
                         \cup (IF r.ok THEN {} ELSE {<<"Failed to create fallback TFLite model", info.output_tflite>>})
    /\ mi' = mi + 1
    /\ ui' = 1
    /\ flag' = FALSE
    /\ pc' = IF mi = Len(ONNX_MODELS) THEN "summary" ELSE "primary"
    /\ UNCHANGED <<script, script_dir, log, ret, call>>

\* the summary: return success_count == total_models
Convert_Summary ==
    /\ script = S_convert /\ pc = "summary"
    /\ pc' = "done"
    /\ IF success_count = Len(ONNX_MODELS)
       THEN Say("All models converted successfully!") /\ ret' = "True"
       ELSE Say("model(s) failed conversion") /\ ret' = "False"
    /\ UNCHANGED <<script, script_dir, fs, mi, ui, flag, success_count, log, call>>

(***************************************************************************)
(* The file system each script starts from.                                *)
(***************************************************************************)
TessFiles == {MODELS[i].file : i \in 1..Len(MODELS)}

DirectFiles == {TFLITE_MODELS[i].file : i \in 1..Len(TFLITE_MODELS)}

InitTess ==
    /\ script = S_tess
    /\ fs \in {f \in [TessFiles -> UNION {TessInitial(MODELS[i].size_mb) : i \in 1..Len(MODELS)}] :
                 \A i \in 1..Len(MODELS) : f[MODELS[i].file] \in TessInitial(MODELS[i].size_mb)}
    /\ pc = "loop"
    /\ script_dir = AbsDir

InitDirect ==
    /\ script = S_direct
    /\ \E k \in KerasInitial :
         fs = [p \in DirectFiles \cup {keras_model_source, keras_model_dest} |->
                 IF p = keras_model_source THEN k ELSE NoFile]
    /\ pc = "urls"
    /\ script_dir = AbsDir

EasyFiles == {EASYOCR_MODELS[i].file : i \in 1..Len(EASYOCR_MODELS)}

CraftFiles == {models[i].file : i \in 1..Len(models)}

\* __file__ is absolute or a bare name, by interpreter version and invocation
InitEasy ==
    /\ script = S_easy
    /\ script_dir \in {AbsDir, RelDir}
    /\ fs = [p \in EasyFiles |-> NoFile]
    /\ pc = EasyEntry(script_dir, 1)

InitCraft ==
    /\ script = S_craft
    /\ script_dir = AbsDir
    /\ fs \in [CraftFiles -> CraftInitial]
    /\ pc = "loop"

PaddleFiles ==
    {paddle_models[i].tar_file : i \in 1..Len(paddle_models)}
        \cup {paddle_models[i].tflite_file : i \in 1..Len(paddle_models)}

\* temp_models may be left over from a run that was interrupted
InitPaddle ==
    /\ script = S_paddle
    /\ script_dir = AbsDir
    /\ fs \in {f \in [PaddleFiles -> {NoFile, PaddleTar} \cup UNION {PaddleInitial(paddle_models[i]) : i \in 1..Len(paddle_models)}] :
                 \A i \in 1..Len(paddle_models) :
                    /\ f[paddle_models[i].tar_file] \in {NoFile, PaddleTar}
                    /\ f[paddle_models[i].tflite_file] \in PaddleInitial(paddle_models[i])}
    /\ pc = "loop"

TrocrFiles ==
    UNION {{TROCR_MODELS[i].pytorch, TROCR_MODELS[i].onnx, TROCR_MODELS[i].output_tflite} :
             i \in 1..Len(TROCR_MODELS)} \cup {"config.json"}

InitTrocr ==
    /\ script = S_trocr
    /\ script_dir = AbsDir
    /\ fs = [p \in TrocrFiles |-> NoFile]
    /\ pc = "deps"

ConvertFiles ==
    UNION {{ONNX_MODELS[i].onnx, ONNX_MODELS[i].output_tflite} : i \in 1..Len(ONNX_MODELS)}

InitConvert ==
    /\ script = S_convert
    /\ script_dir = AbsDir
    /\ fs = [p \in ConvertFiles |-> NoFile]
    /\ pc = "deps"

\* no function is called on its own in a run of a script
NoCall == [filepath |-> "", expected_size_mb |-> 0, tolerance2 |-> 0]

Init ==
    /\ call = NoCall
    /\ mi = 1
    /\ ui = 1
    /\ flag = FALSE
    /\ success_count = 0
    /\ log = <<>>
    /\ out = {}
    /\ ret = "running"
    /\ \/ InitTess
       \/ InitDirect
       \/ InitEasy
       \/ InitCraft
       \/ InitPaddle
       \/ InitTrocr
       \/ InitConvert

Next ==
    \/ Tess_Skip
    \/ Tess_Primary
    \/ Tess_Fallback
    \/ Tess_Check
    \/ Tess_Summary
    \/ Direct_TryUrl
    \/ Direct_CreateMinimal
    \/ Direct_NextModel
    \/ Direct_Summary
    \/ Setup_main
    \/ Easy_DirectSource
    \/ Easy_Primary
    \/ Easy_Alternative
    \/ Easy_CreateMinimal
    \/ Easy_Summary
    \/ Craft_UseExisting
    \/ Craft_Download
    \/ Craft_Summary
    \/ Paddle_Model
    \/ Paddle_Mocks
    \/ Paddle_Processed
    \/ Trocr_CheckDependencies
    \/ Trocr_Primary
    \/ Trocr_Backup
    \/ Trocr_Convert
    \/ Trocr_Summary
    \/ Convert_CheckDependencies
    \/ Convert_Primary
    \/ Convert_Backup
    \/ Convert_Convert
    \/ Convert_Summary

Spec == Init /\ [][Next]_vars

\* a script runs on while it has a step to take: every call returns
FairSpec == Spec /\ WF_vars(Next)

(***************************************************************************)
(* verify_file_size called on its own: any file or none at filepath, any   *)
(* expected size of MODELS, any tolerance that is a multiple of 0.5.       *)
(***************************************************************************)
\* largest tolerance considered, in half megabytes
MaxTolerance2 == 2

\* the values of size_mb in MODELS
ExpectedSizes == {MODELS[i].size_mb : i \in 1..Len(MODELS)}

\* sizes at, just below and just above every multiple of 0.5 MB around an expected size
VerifySizes ==
    {e * MiB + d * HalfMiB + k :
       e \in ExpectedSizes, d \in (0 - MaxTolerance2 - 1)..(MaxTolerance2 + 1), k \in {-1, 0, 1}}

InitVerify ==
    /\ script = S_tess
    /\ script_dir = AbsDir
    /\ pc = "verify_file_size"
    /\ call \in [filepath : {"filepath"}, expected_size_mb : ExpectedSizes, tolerance2 : 0..MaxTolerance2]
    /\ fs \in [{"filepath"} -> {NoFile} \cup {File(<<>>, n, "traineddata") : n \in VerifySizes}]
    /\ mi = 1
    /\ ui = 1
    /\ flag = FALSE
    /\ success_count = 0
    /\ log = <<>>
    /\ out = {}
    /\ ret = "running"

\* verify_file_size(filepath, expected_size_mb, tolerance) and its return value
Verify_call ==
    /\ pc = "verify_file_size"
    /\ ret' = IF verify_file_size(fs[call.filepath], call.expected_size_mb, call.tolerance2)
              THEN "True"
              ELSE "False"
    /\ pc' = "returned"
    /\ UNCHANGED <<script, script_dir, fs, mi, ui, flag, success_count, log, out, call>>

NextVerify == Verify_call

SpecVerify == InitVerify /\ [][NextVerify]_vars

(***************************************************************************)
(* Properties.                                                             *)
(***************************************************************************)
\* the download_file calls made for the model files of model m, in order
LogOf(m) == SelectSeq(log, LAMBDA e : e.model = m /\ e.stage # "config")

NoneAccepted(m) == \A i \in 1..Len(LogOf(m)) : ~LogOf(m)[i].acc

SomeAccepted(m) == \E i \in 1..Len(LogOf(m)) : LogOf(m)[i].acc

NModels ==
    CASE script = S_tess -> Len(MODELS)
      [] script = S_direct -> Len(TFLITE_MODELS)
      [] script = S_easy -> Len(EASYOCR_MODELS)
      [] script = S_craft -> Len(models)
      [] script = S_paddle -> Len(paddle_models)
      [] script = S_trocr -> Len(TROCR_MODELS)
      [] script = S_convert -> Len(ONNX_MODELS)
      [] OTHER -> 0

\* the path at which the script leaves model m
OutPath(m) ==
    CASE script = S_tess -> MODELS[m].file
      [] script = S_direct -> TFLITE_MODELS[m].file
      [] script = S_easy -> EASYOCR_MODELS[m].file
      [] script = S_craft -> models[m].file
      [] script = S_paddle -> paddle_models[m].tflite_file
      [] script = S_trocr -> TROCR_MODELS[m].output_tflite
      [] script = S_convert -> ONNX_MODELS[m].output_tflite

\* the URLs configured for model m, by priority
UrlList(m) ==
    CASE script = S_tess -> <<MODELS[m].url, MODELS[m].fallback_url>>
      [] script = S_direct -> TFLITE_MODELS[m].urls
      [] script = S_craft -> <<models[m].url>>
      [] script = S_trocr -> <<TROCR_MODELS[m].url>> \o TROCR_MODELS[m].backup_urls
      [] script = S_convert -> <<ONNX_MODELS[m].url>> \o ONNX_MODELS[m].backup_urls

\* the run is through with model m
Ended(m) == mi > m \/ (script = S_tess /\ pc = "done" /\ mi = m)

\* a synthesized stand-in for a model
Placeholder(f) == f.exists /\ f.weights = "stub"

StubScripts == {S_direct, S_easy, S_trocr, S_convert}

StubFailed(m) ==
    \/ SaidFor("Failed to create minimal model", OutPath(m))
    \/ SaidFor("Failed to create fallback TFLite model", OutPath(m))

\* C1 as stated: in every download script, a model that ended with every URL failed
\* has a placeholder at its output path.
C1_AsStated ==
    script \in StubScripts \cup {S_tess, S_craft} =>
      \A m \in 1..NModels :
         Ended(m) /\ LogOf(m) # <<>> /\ NoneAccepted(m) => Placeholder(fs[OutPath(m)])

\* C1 as amended: in the four scripts that have a stub writer, a model that ended with
\* no URL accepted has the stub at its output path unless writing the stub failed and
\* was reported; download_ocr_models.py returns False with no stub written, and
\* download_craft_keras_tflite_models.py goes on with no stub written.
C1_Placeholder ==
    /\ script \in StubScripts =>
         \A m \in 1..NModels :
            Ended(m) /\ NoneAccepted(m) => Placeholder(fs[OutPath(m)]) \/ StubFailed(m)
    /\ script = S_tess =>
         \A m \in 1..NModels :
            Ended(m) /\ LogOf(m) # <<>> /\ NoneAccepted(m)
               => pc = "done" /\ ret = "False" /\ ~Placeholder(fs[OutPath(m)])
    /\ script = S_craft =>
         \A m \in 1..NModels : ~Placeholder(fs[OutPath(m)])

\* every URL of the first model of download_ocr_tflite_direct.py failed and the stub is there
C1_Witness ==
    /\ script = S_direct /\ mi > 1
    /\ Len(LogOf(1)) = Len(TFLITE_MODELS[1].urls)
    /\ NoneAccepted(1)
    /\ Placeholder(fs[TFLITE_MODELS[1].file])

\* C2: the attempts for a model are the first URLs of its priority list, in that order,
\* each once, and only the last of them can be an accepted one.
C2_PriorityOrder ==
    script \in {S_tess, S_direct, S_craft, S_trocr, S_convert} =>
      \A m \in 1..NModels :
         LET L == LogOf(m)
             U == UrlList(m)
         IN /\ Len(L) <= Len(U)
            /\ \A i \in 1..Len(L) : L[i].url = U[i]
            /\ \A i \in 1..Len(L) : L[i].acc => i = Len(L)
            /\ \A i, j \in 1..Len(U) : i # j => U[i] # U[j]

\* the fourth URL of a model of download_ocr_tflite_direct.py was reached, and accepted
C2_Witness ==
    /\ script = S_direct
    /\ Len(LogOf(1)) = 4
    /\ LogOf(1)[4].acc
    /\ Len(LogOf(2)) >= 2

\* the entries of the log that were accepted
AcceptedCount == Cardinality({i \in 1..Len(log) : log[i].acc})

\* C3 as stated: what download_easyocr_models.py and download_ocr_tflite_direct.py
\* accept carries the TFL3 magic in its header.
C3_AsStated ==
    script \in {S_easy, S_direct} =>
      \A i \in 1..Len(log) : log[i].acc => contains(log[i].got.hdr, TFL3)

\* C3 as amended: download_easyocr_models.py accepts every download that completed,
\* download_ocr_tflite_direct.py every completed download of at least 1024 bytes,
\* whatever the header; each accepted download is counted in success_count.
C3_SizeOnly ==
    /\ script = S_easy =>
         \A i \in 1..Len(log) : log[i].acc <=> log[i].res
    /\ script = S_direct =>
         \A i \in 1..Len(log) : log[i].acc <=> (log[i].res /\ log[i].got.size >= 1024)
    /\ script \in {S_easy, S_direct} => success_count >= AcceptedCount

\* an HTML page was downloaded under the .tflite name, accepted and counted
C3_Witness ==
    /\ script = S_direct
    /\ success_count = 1
    /\ \E i \in 1..Len(log) :
         /\ log[i].acc
         /\ log[i].got.hdr = HtmlHdr
         /\ fs[TFLITE_MODELS[log[i].model].file] = log[i].got

\* C4: download_ocr_tflite_direct.py returns True only when every model was accepted
\* from one of its URLs.
C4_AllDownloaded ==
    script = S_direct /\ pc = "done" /\ ret = "True" =>
      \A m \in 1..Len(TFLITE_MODELS) : SomeAccepted(m)

\* C5: in download_trocr_models.py a model written on the conversion path carries the
\* weights of the checkpoint that was downloaded for it.
C5_ConvertedFromDownload ==
    script = S_trocr =>
      \A m \in 1..Len(TROCR_MODELS) :
         Ended(m) /\ SaidFor("converted", TROCR_MODELS[m].output_tflite) =>
            \A i \in 1..Len(LogOf(m)) :
               LogOf(m)[i].acc => fs[TROCR_MODELS[m].output_tflite].weights = LogOf(m)[i].got.weights

\* C6: setup_keras_ocr.py, run after download_ocr_tflite_direct.py returned True,
\* finds its source model.
C6_SourceFound ==
    script = S_setup /\ Said("All models downloaded successfully!") =>
      ~Said("Source model not found")

\* C7: after download_paddleocr_models.py ended with no model converted, both
\* tflite_file paths hold a file that begins with the TFL3 magic.
C7_MocksInPlace ==
    script = S_paddle /\ pc = "done" /\ success_count = 0 =>
      \A i \in 1..Len(paddle_models) :
         /\ fs[paddle_models[i].tflite_file].exists
         /\ startswith(fs[paddle_models[i].tflite_file].hdr, TFL3)

\* model `name` was counted in success_count by download_craft_keras_tflite_models.py
CraftCounted(name) == SaidFor("Using existing model", name) \/ SaidFor("ready", name)

\* C8: download_craft_keras_tflite_models.py reports ready only with the detection
\* model and at least one recognition model counted.
C8_ReadyNeedsDetection ==
    script = S_craft /\ Said("Ready for real OCR processing!") =>
      /\ CraftCounted(models[1].name)
      /\ CraftCounted(models[2].name) \/ CraftCounted(models[3].name)

\* the sources of model m of download_easyocr_models.py, by stage
EasySources(m) ==
    LET info == EASYOCR_MODELS[m]
        direct == DIRECT_TFLITE_SOURCES[<<info.file>>]
    IN [i \in 1..Len(direct) |-> <<"direct", direct[i]>>]
         \o << <<"primary", info.url>> >>
         \o [i \in 1..Len(info.alternative_urls) |-> <<"alternative", info.alternative_urls[i]>>]

\* C9: download_easyocr_models.py tries the sources of a model in the order direct
\* sources, primary URL, alternative URLs, and the minimal model last: the attempts
\* are the first sources of that list, only the last of them can be accepted, and the
\* minimal model is made only after all of them failed.
C9_StageOrder ==
    script = S_easy =>
      \A m \in 1..Len(EASYOCR_MODELS) :
         LET L == LogOf(m)
             S == EasySources(m)
         IN /\ Len(L) <= Len(S)
            /\ \A i \in 1..Len(L) : <<L[i].stage, L[i].url>> = S[i]
            /\ \A i \in 1..Len(L) : L[i].acc => i = Len(L)
            /\ SaidFor("All download attempts failed", EASYOCR_MODELS[m].file)
                 => Len(L) = Len(S) /\ NoneAccepted(m)

\* filepath.exists() and verify_file_size(filepath, size_mb), for every model
TessVerified(fsys, i) ==
    fsys[MODELS[i].file].exists /\ verify_file_size(fsys[MODELS[i].file], MODELS[i].size_mb, DefaultTolerance2)

TessAllVerified(fsys) == \A i \in 1..Len(MODELS) : TessVerified(fsys, i)

\* C10: in download_ocr_models.py a model whose file exists and verifies is passed
\* over with no download and no change to any file; with all four files verified
\* every step leaves the files and the log as they are and main returns True.
C10_SkipVerified ==
    [][script = S_tess =>
         /\ pc = "loop" /\ TessVerified(fs, mi) => log' = log /\ fs' = fs /\ mi' = mi + 1
         /\ TessAllVerified(fs) => fs' = fs /\ log' = log /\ (pc' = "done" => ret' = "True")]_vars

\* main returned True over four verified files without a single download
C10_Witness ==
    /\ script = S_tess /\ pc = "done" /\ ret = "True"
    /\ log = <<>>
    /\ TessAllVerified(fs)

\* C11: in download_ocr_models.py the first attempt for a model is its primary URL,
\* a second attempt is the fallback URL and is made exactly when the primary download
\* returned failure, and there is no third attempt.
C11_FallbackIffPrimaryFailed ==
    script = S_tess =>
      \A m \in 1..Len(MODELS) :
         LET L == LogOf(m)
         IN /\ Len(L) <= 2
            /\ Len(L) >= 1 => L[1].stage = "primary" /\ L[1].url = MODELS[m].url
            /\ Len(L) = 2 => L[2].stage = "fallback" /\ L[2].url = MODELS[m].fallback_url /\ ~L[1].res
            /\ Len(L) = 1 /\ ~L[1].res => mi = m /\ pc = "fallback"

\* the primary download of a model failed and its fallback download was made and succeeded
C11_Witness ==
    /\ script = S_tess
    /\ \E m \in 1..Len(MODELS) :
         /\ Len(LogOf(m)) = 2
         /\ ~LogOf(m)[1].res
         /\ LogOf(m)[2].res
         /\ mi > m

\* the size of the file at filepath in MB minus expected_size_mb, in 1/2^21 MB
Diff2 == 2 * fs[call.filepath].size - 2 * call.expected_size_mb * MiB

\* C12: verify_file_size returns True exactly when the file exists and its size in MB
\* differs from expected_size_mb by at most the tolerance, the boundary included; it
\* returns False for a missing file and for any larger difference.
C12_VerifyFileSize ==
    pc = "returned" =>
      /\ ret \in {"True", "False"}
      /\ ret = "True" <=>
           /\ fs[call.filepath].exists
           /\ Diff2 <= call.tolerance2 * MiB
           /\ 0 - Diff2 <= call.tolerance2 * MiB

\* a file exactly 0.5 MB larger than expected passes with the default tolerance
C12_Witness ==
    /\ pc = "returned" /\ ret = "True"
    /\ call.tolerance2 = DefaultTolerance2
    /\ fs[call.filepath].exists
    /\ fs[call.filepath].size = call.expected_size_mb * MiB + HalfMiB

\* every download_file call made for model m, the one for config.json included
AttemptsOf(m) == SelectSeq(log, LAMBDA e : e.model = m)

\* every URL configured for model m
ConfiguredUrls(m) ==
    CASE script = S_easy -> [i \in 1..Len(EasySources(m)) |-> EasySources(m)[i][2]]
      [] script = S_paddle -> <<paddle_models[m].url>>
      [] script = S_trocr ->
           UrlList(m) \o (IF TROCR_MODELS[m].config_url # ""
                          THEN <<TROCR_MODELS[m].config_url>>
                          ELSE <<>>)
      [] OTHER -> UrlList(m)

\* at most as many attempts for a model as it has URLs, no URL attempted twice for a
\* model, and the attempts of a model are consecutive, in the order of the models
BoundedAttempts ==
    /\ \A m \in 1..NModels :
         LET L == AttemptsOf(m)
         IN /\ Len(L) <= Len(ConfiguredUrls(m))
            /\ \A i, j \in 1..Len(L) : L[i].url = L[j].url => i = j
            /\ \A i \in 1..Len(L) : \E k \in 1..Len(ConfiguredUrls(m)) : L[i].url = ConfiguredUrls(m)[k]
    /\ \A i, j \in 1..Len(log) : i < j => log[i].model <= log[j].model
    /\ \A i \in 1..Len(log) : log[i].model \in 1..NModels

\* the closing lines of a main
SummaryLines ==
    { "All OCR models downloaded successfully!",
      "All models downloaded successfully!",
      "model(s) failed to download",
      "Ready for real OCR processing!",
      "Need at least text detection + text recognition models",
      "Mock models created.",
      "Successfully processed",
      "All TrOCR models converted successfully!",
      "model(s) failed conversion",
      "All models converted successfully!" }

SummaryReached == \E line \in SummaryLines : Said(line)

\* main returned False before its summary
EarlyReturn ==
    /\ ret = "False"
    /\ ~SummaryReached
    /\ \/ /\ script = S_tess
          /\ Said("Failed to download")
          /\ Len(AttemptsOf(mi)) = 2
          /\ \A i \in 1..2 : ~AttemptsOf(mi)[i].res
       \/ /\ script \in {S_trocr, S_convert}
          /\ Said("Dependency check failed")
          /\ log = <<>>

\* C13 as stated, without the part about the future: attempts are bounded by the
\* configured URLs, no model is gone through twice, and a main that returned has reached
\* its summary.
C13_AsStated ==
    /\ script # S_setup => BoundedAttempts
    /\ pc = "done" => SummaryReached

\* C13: in every script the attempts for a model are at most its configured URLs, none
\* repeated, every model is gone through at most once and in order, and main eventually
\* returns; it has then reached its summary, unless download_ocr_models.py failed both
\* URLs of a model or a dependency check failed, and main returned False before it.
C13_BoundedTermination ==
    /\ [](script # S_setup => BoundedAttempts)
    /\ [](pc = "done" => ret # "running" /\ (SummaryReached \/ EarlyReturn))
    /\ [][mi' \in {mi, mi + 1} /\ (pc = "done" => pc' = "done")]_vars
    /\ <>(pc = "done")

\* a run of download_ocr_tflite_direct.py that tried every URL of every model and
\* returned after its summary
C13_Witness ==
    /\ script = S_direct
    /\ pc = "done"
    /\ ret # "running"
    /\ SummaryReached
    /\ \A m \in 1..Len(TFLITE_MODELS) : Len(AttemptsOf(m)) = Len(TFLITE_MODELS[m].urls)

====
